---- MODULE Spec2Model ----
(***************************************************************************)
(* lev-diff: the edit-distance engine of src/main.rs.                      *)
(*                                                                         *)
(* lev(s1, s2) fills an (n1+1) x (n2+1) table of Option<(usize, Action)>   *)
(* and backtrack_actions walks it from the bottom-right corner back to the *)
(* origin.  The model follows the two functions statement by statement:    *)
(* one step per cell write and one step per iteration of the backtracking  *)
(* loop.  dump() only prints (and only when TRACE is set), so it changes   *)
(* no state and is left out.                                               *)
(***************************************************************************)
EXTENDS Integers, Sequences, FiniteSets

\* Longest input sequence explored.
MaxLen == 3

\* The line contents the inputs are drawn from.  An element of s1 or s2 is a
\* &str; it is modelled by its index into Lines, so that element equality
\* (Eq on &str, by content) is index equality.  The empty line is among
\* them: it is the text the (0,0) sentinel carries as well.
Lines == <<"", "a", "b">>

Elem == 1..Len(Lines)

\* T::to_string for T = &str: the owned String holding the line's content.
to_string(e) == Lines[e]

VARIABLES
    s1,       \* first input slice
    s2,       \* second input slice
    actions,  \* the table: actions[i][j], 0 <= i <= n1, 0 <= j <= n2
    pc,       \* position in lev / backtrack_actions
    n1,       \* the row variable n1 in scope at pc (loop index / cursor)
    n2,       \* the column variable n2 in scope at pc (loop index / cursor)
    result,   \* backtrack_actions' Vec<&Action>: the cells referred to
    script,   \* the Vec<Action> lev returns
    writes    \* history: the cells assigned so far, in assignment order

vars == <<s1, s2, actions, pc, n1, n2, result, script, writes>>

\* The lengths lev binds to n1 and n2 before its loops shadow the names.
N1 == Len(s1)
N2 == Len(s2)

----------------------------------------------------------------------------
\* enum Action and Option<(usize, Action)>

Add(pos, text) == [tag |-> "Add", pos |-> pos, text |-> text]
Remove(pos, text) == [tag |-> "Remove", pos |-> pos, text |-> text]
Substitute(pos, old, new) == [tag |-> "Substitute", pos |-> pos, old |-> old, new |-> new]
Ignore(pos, text) == [tag |-> "Ignore", pos |-> pos, text |-> text]

\* An Option is a sequence of length at most one.
None == <<>>
Some(cost, action) == <<[cost |-> cost, action |-> action]>>
IsSome(cell) == cell # None

\* actions[i][j].as_ref().map(|tup| tup.0).unwrap(), defined when IsSome
CostAt(i, j) == actions[i][j][1].cost
\* actions[i][j].as_ref().unwrap().1, defined when IsSome
ActionAt(i, j) == actions[i][j][1].action

Written(i, j) == IsSome(actions[i][j])

----------------------------------------------------------------------------
\* The table after lines 65-68: n1 + 1 rows of n2 + 1 empty cells.
EmptyTable == [i \in 0..N1 |-> [j \in 0..N2 |-> None]]

Seqs == UNION {[1..n -> Elem] : n \in 0..MaxLen}

Init ==
    /\ s1 \in Seqs
    /\ s2 \in Seqs
    /\ actions = EmptyTable
    /\ pc = "origin"
    /\ n1 = N1
    /\ n2 = N2
    /\ result = <<>>
    /\ script = <<>>
    /\ writes = <<>>

\* actions[i][j] = cell
Store(i, j, cell) ==
    /\ actions' = [actions EXCEPT ![i][j] = cell]
    /\ writes' = Append(writes, <<i, j>>)

\* line 70
Sentinel == Ignore(0, "")

SetOrigin ==
    /\ pc = "origin"
    /\ Store(0, 0, Some(0, Sentinel))
    /\ pc' = "row0"
    /\ n1' = 0
    /\ n2' = 1
    /\ UNCHANGED <<s1, s2, result, script>>

\* Fault variant of Row0Cell: the cost of the insertions is not recorded.
Row0CellNoCost(j) == Some(0, Add(j, to_string(s2[j])))

\* line 74: the value stored in row 0
Row0Cell(j) == Some(j, Add(j, to_string(s2[j])))

\* lines 72-76, one iteration
Row0 ==
    /\ pc = "row0"
    /\ n2 <= N2
    /\ Store(0, n2, Row0Cell(n2))
    /\ n2' = n2 + 1
    /\ UNCHANGED <<s1, s2, pc, n1, result, script>>

\* Fault variant of Row0Exit: the loop of lines 77-81 is left out, so
\* column 0 stays empty.
Row0ExitSkipCol0 ==
    /\ pc = "row0"
    /\ n2 > N2
    /\ pc' = "cells"
    /\ n1' = 1
    /\ n2' = 1
    /\ UNCHANGED <<s1, s2, actions, result, script, writes>>

\* the range 1..n2 + 1 of line 72 is exhausted; the loop of line 77 starts
Row0Exit ==
    /\ pc = "row0"
    /\ n2 > N2
    /\ pc' = "col0"
    /\ n1' = 1
    /\ n2' = 0
    /\ UNCHANGED <<s1, s2, actions, result, script, writes>>

\* Fault variant of Col0Cell: line 74 copied without changing the operation.
Col0CellAsAdd(i) == Some(i, Add(i, to_string(s1[i])))

\* line 79: the value stored in column 0
Col0Cell(i) == Some(i, Remove(i, to_string(s1[i])))

\* lines 77-81, one iteration
Col0 ==
    /\ pc = "col0"
    /\ n1 <= N1
    /\ Store(n1, 0, Col0Cell(n1))
    /\ n1' = n1 + 1
    /\ UNCHANGED <<s1, s2, pc, n2, result, script>>

\* the range of line 77 is exhausted; the nested loops of lines 82-83 start
Col0Exit ==
    /\ pc = "col0"
    /\ n1 > N1
    /\ pc' = "cells"
    /\ n1' = 1
    /\ n2' = 1
    /\ UNCHANGED <<s1, s2, actions, result, script, writes>>

\* Fault variant of IgnoreCell: a match is charged like a substitution.
IgnoreCellCharged(i, j) == Some(1 + CostAt(i - 1, j - 1), Ignore(j, to_string(s1[i])))

\* Fault variant of IgnoreCell: the zero-based column as pos.
IgnoreCellZeroBased(i, j) == Some(CostAt(i - 1, j - 1), Ignore(j - 1, to_string(s1[i])))

\* lines 85-86: the value stored when s1[n1 - 1] == s2[n2 - 1]
IgnoreCell(i, j) == Some(CostAt(i - 1, j - 1), Ignore(j, to_string(s1[i])))

\* Fault variant of Candidates: Substitute numbered by the row, as Remove is.
CandidatesRowPos(i, j) ==
    << [cost |-> 1 + CostAt(i - 1, j), action |-> Remove(i, to_string(s1[i]))],
       [cost |-> 1 + CostAt(i, j - 1), action |-> Add(j, to_string(s2[j]))],
       [cost |-> 1 + CostAt(i - 1, j - 1),
        action |-> Substitute(i, to_string(s1[i]), to_string(s2[j]))] >>

\* lines 90-103: the vec! of the three candidates, in the order written
Candidates(i, j) ==
    << [cost |-> 1 + CostAt(i - 1, j), action |-> Remove(i, to_string(s1[i]))],
       [cost |-> 1 + CostAt(i, j - 1), action |-> Add(j, to_string(s2[j]))],
       [cost |-> 1 + CostAt(i - 1, j - 1),
        action |-> Substitute(j, to_string(s1[i]), to_string(s2[j]))] >>

\* Fault variant of MinByKey: the last of several equally minimum elements
\* (what max_by_key does for maxima).
MinByKeyLast(items) ==
    IF items = <<>> THEN None
    ELSE LET k == CHOOSE k \in 1..Len(items) :
                      /\ \A m \in 1..Len(items) : items[k].cost <= items[m].cost
                      /\ \A m \in (k + 1)..Len(items) : items[m].cost > items[k].cost
         IN <<items[k]>>

\* lines 104-106: Iterator::min_by_key(|item| item.0) returns the first of
\* several equally minimum elements, and None for an empty iterator.
MinByKey(items) ==
    IF items = <<>> THEN None
    ELSE LET k == CHOOSE k \in 1..Len(items) :
                      /\ \A m \in 1..Len(items) : items[k].cost <= items[m].cost
                      /\ \A m \in 1..(k - 1) : items[m].cost > items[k].cost
         IN <<items[k]>>

\* lines 84-89, one iteration of the inner loop on equal elements.  The
\* unwrap of line 85 panics on an empty cell.
FillIgnore ==
    /\ pc = "cells"
    /\ n1 <= N1
    /\ n2 <= N2
    /\ s1[n1] = s2[n2]
    /\ IF Written(n1 - 1, n2 - 1)
       THEN /\ Store(n1, n2, IgnoreCell(n1, n2))
            /\ n2' = n2 + 1
            /\ UNCHANGED pc
       ELSE /\ pc' = "panic"
            /\ UNCHANGED <<actions, writes, n2>>
    /\ UNCHANGED <<s1, s2, n1, result, script>>

\* lines 90-107, one iteration of the inner loop on different elements.
\* The unwraps of lines 92, 96 and 100 panic on an empty cell.
FillMin ==
    /\ pc = "cells"
    /\ n1 <= N1
    /\ n2 <= N2
    /\ s1[n1] # s2[n2]
    /\ IF Written(n1 - 1, n2) /\ Written(n1, n2 - 1) /\ Written(n1 - 1, n2 - 1)
       THEN /\ Store(n1, n2, MinByKey(Candidates(n1, n2)))
            /\ n2' = n2 + 1
            /\ UNCHANGED pc
       ELSE /\ pc' = "panic"
            /\ UNCHANGED <<actions, writes, n2>>
    /\ UNCHANGED <<s1, s2, n1, result, script>>

\* the range of line 83 is exhausted: next row
RowExit ==
    /\ pc = "cells"
    /\ n1 <= N1
    /\ n2 > N2
    /\ n1' = n1 + 1
    /\ n2' = 1
    /\ UNCHANGED <<s1, s2, actions, pc, result, script, writes>>

\* the range of line 82 is exhausted: lev calls backtrack_actions (line 110),
\* whose lines 44-46 set result, n1 = actions.len() and
\* n2 = actions.get(0).map(|arr| arr.len()).unwrap_or(0).
CallBacktrack ==
    /\ pc = "cells"
    /\ n1 > N1
    /\ pc' = "backtrack"
    /\ result' = <<>>
    /\ n1' = Cardinality(DOMAIN actions)
    /\ n2' = IF 0 \in DOMAIN actions THEN Cardinality(DOMAIN actions[0]) ELSE 0
    /\ UNCHANGED <<s1, s2, actions, script, writes>>

\* Fault variant of Advance: the n2 -= 1 of line 55 is missing.
AdvanceRowOnly(action, r, c) ==
    CASE action.tag = "Add" -> <<r, c - 1>>
      [] action.tag = "Remove" -> <<r - 1, c>>
      [] action.tag \in {"Substitute", "Ignore"} -> <<r - 1, c>>

\* lines 50-57: the cursor after an action, as <<n1, n2>>
Advance(action, r, c) ==
    CASE action.tag = "Add" -> <<r, c - 1>>
      [] action.tag = "Remove" -> <<r - 1, c>>
      [] action.tag \in {"Substitute", "Ignore"} -> <<r - 1, c - 1>>

\* lines 47-58, one iteration.  result holds references into the table:
\* the cell each pushed &Action lives in.  The unwrap of line 48 panics on
\* an empty cell.
BacktrackStep ==
    /\ pc = "backtrack"
    /\ n1 > 0 /\ n2 > 0
    /\ IF Written(n1 - 1, n2 - 1)
       THEN LET next == Advance(ActionAt(n1 - 1, n2 - 1), n1, n2)
            IN /\ result' = Append(result, <<n1 - 1, n2 - 1>>)
               /\ n1' = next[1]
               /\ n2' = next[2]
               /\ UNCHANGED pc
       ELSE /\ pc' = "panic"
            /\ UNCHANGED <<result, n1, n2>>
    /\ UNCHANGED <<s1, s2, actions, script, writes>>

\* the loop condition of line 47 fails: backtrack_actions returns result
BacktrackExit ==
    /\ pc = "backtrack"
    /\ ~(n1 > 0 /\ n2 > 0)
    /\ pc' = "collect"
    /\ UNCHANGED <<s1, s2, actions, n1, n2, result, script, writes>>

\* .cloned(): the Action each reference points to
Cloned(refs) == [k \in 1..Len(refs) |-> ActionAt(refs[k][1], refs[k][2])]
\* .rev()
Rev(xs) == [k \in 1..Len(xs) |-> xs[Len(xs) + 1 - k]]
\* .skip(1)
Skip1(xs) == SubSeq(xs, 2, Len(xs))

\* Fault variant of Collected: .rev() is missing.
CollectedUnreversed(refs) == Skip1(Cloned(refs))

\* Fault variant of Collected: .skip(1) is missing.
CollectedWithSentinel(refs) == Rev(Cloned(refs))

\* lines 110-115
Collected(refs) == Skip1(Rev(Cloned(refs)))

Collect ==
    /\ pc = "collect"
    /\ script' = Collected(result)
    /\ pc' = "done"
    /\ UNCHANGED <<s1, s2, actions, n1, n2, result, writes>>

Next ==
    \/ SetOrigin
    \/ Row0
    \/ Row0Exit
    \/ Col0
    \/ Col0Exit
    \/ FillIgnore
    \/ FillMin
    \/ RowExit
    \/ CallBacktrack
    \/ BacktrackStep
    \/ BacktrackExit
    \/ Collect

Spec == Init /\ [][Next]_vars

----------------------------------------------------------------------------
\* Vocabulary of the properties.

Filled == pc \in {"backtrack", "collect", "done"}
Prefix(s, k) == SubSeq(s, 1, k)
Min2(a, b) == IF a <= b THEN a ELSE b

\* The Levenshtein distance of two sequences by the textbook recursion on
\* their heads: unit cost for insert, delete and substitute, none for a
\* match.  Unlike lev it works from the front, keeps no table and always
\* compares the three alternatives.
RECURSIVE LevDist(_, _)
LevDist(a, b) ==
    IF a = <<>> THEN Len(b)
    ELSE IF b = <<>> THEN Len(a)
    ELSE Min2(Min2(1 + LevDist(Tail(a), b), 1 + LevDist(a, Tail(b))),
              (IF Head(a) = Head(b) THEN 0 ELSE 1) + LevDist(Tail(a), Tail(b)))

\* C1: once the table is filled, every cell (i, j) holds a value whose cost
\* is the Levenshtein distance between the first i elements of s1 and the
\* first j elements of s2; in particular cell (n1, n2) holds the edit
\* distance of s1 and s2.
C1_CostIsLevenshtein ==
    Filled =>
        \A i \in 0..N1 : \A j \in 0..N2 :
            /\ Written(i, j)
            /\ CostAt(i, j) = LevDist(Prefix(s1, i), Prefix(s2, j))

\* A filled table with a cell that copied its cost from the diagonal on
\* equal elements although a neighbour above or to the left is as cheap or
\* cheaper than the copied cost, and the distance is not trivial.
C1_Witness ==
    /\ Filled
    /\ N1 = MaxLen /\ N2 = MaxLen
    /\ CostAt(N1, N2) >= 2
    /\ \E i \in 1..N1 : \E j \in 1..N2 :
           /\ s1[i] = s2[j]
           /\ ActionAt(i, j).tag = "Ignore"
           /\ CostAt(i - 1, j) < CostAt(i - 1, j - 1)

\* The owned strings of a slice.
Texts(s) == [k \in 1..Len(s) |-> to_string(s[k])]
Range(xs) == {xs[k] : k \in 1..Len(xs)}
Tags(ops) == {ops[k].tag : k \in 1..Len(ops)}

\* Applying operations to the not yet consumed part of the first sequence,
\* left to right.  ok is FALSE when an operation wants an element and none
\* is left.
RECURSIVE ApplyFrom(_, _, _)
ApplyFrom(ops, rest, out) ==
    IF ops = <<>> THEN [ok |-> TRUE, rest |-> rest, out |-> out]
    ELSE LET op == Head(ops)
         IN IF op.tag = "Add"
            THEN ApplyFrom(Tail(ops), rest, Append(out, op.text))
            ELSE IF rest = <<>>
            THEN [ok |-> FALSE, rest |-> rest, out |-> out]
            ELSE CASE op.tag = "Remove" -> ApplyFrom(Tail(ops), Tail(rest), out)
                   [] op.tag = "Substitute" ->
                          ApplyFrom(Tail(ops), Tail(rest), Append(out, op.new))
                   [] op.tag = "Ignore" ->
                          ApplyFrom(Tail(ops), Tail(rest), Append(out, Head(rest)))

\* C2: applying the returned script to s1 from left to right consumes
\* exactly all of s1 and produces exactly s2.
C2_RoundTrip ==
    pc = "done" =>
        LET r == ApplyFrom(script, Texts(s1), <<>>)
        IN /\ r.ok
           /\ r.rest = <<>>
           /\ r.out = Texts(s2)

\* A returned script that inserts, deletes and keeps.
C2_Witness ==
    /\ pc = "done"
    /\ {"Add", "Remove", "Ignore"} \subseteq Tags(script)

NonIgnore(ops) == Cardinality({k \in 1..Len(ops) : ops[k].tag # "Ignore"})

\* C3: the number of Add, Remove and Substitute operations of the returned
\* script is the cost stored at cell (n1, n2), which is the edit distance:
\* the script is minimal.
C3_ScriptCost ==
    pc = "done" =>
        /\ NonIgnore(script) = CostAt(N1, N2)
        /\ NonIgnore(script) = LevDist(s1, s2)

\* A returned script of cost two or more that also keeps a line.
C3_Witness ==
    /\ pc = "done"
    /\ NonIgnore(script) >= 2
    /\ "Ignore" \in Tags(script)
    /\ "Substitute" \in Tags(script)

\* C4: lev(s, s) returns one Ignore per element, the k-th being
\* Ignore(k, s[k-1]), and nothing else, also when s repeats elements.
C4_Identity ==
    (pc = "done" /\ s1 = s2) =>
        script = [k \in 1..N1 |-> Ignore(k, to_string(s1[k]))]

\* lev(s, s) has returned for a longest s with a repeated element.
C4_Witness ==
    /\ pc = "done"
    /\ s1 = s2
    /\ N1 = MaxLen
    /\ \E k \in 1..N1 : \E m \in 1..N1 : k # m /\ s1[k] = s1[m]

\* C5: lev([], s2) returns the Adds of s2 in order, lev(s1, []) the Removes
\* of s1 in order, lev([], []) nothing, and none of them panics.
C5_EmptyInput ==
    /\ (N1 = 0 \/ N2 = 0) => pc # "panic"
    /\ (pc = "done" /\ N1 = 0) =>
           script = [k \in 1..N2 |-> Add(k, to_string(s2[k]))]
    /\ (pc = "done" /\ N2 = 0) =>
           script = [k \in 1..N1 |-> Remove(k, to_string(s1[k]))]

\* lev([], s2) has returned for an s2 of several lines.
C5_Witness ==
    /\ pc = "done"
    /\ N1 = 0
    /\ N2 = MaxLen
    /\ Len(script) = MaxLen

\* The candidate costs of lines 92, 96 and 100 at a cell.
RemoveCost(i, j) == 1 + CostAt(i - 1, j)
AddCost(i, j) == 1 + CostAt(i, j - 1)
SubstituteCost(i, j) == 1 + CostAt(i - 1, j - 1)
MinCost(i, j) == Min2(RemoveCost(i, j), Min2(AddCost(i, j), SubstituteCost(i, j)))

\* C6: a written cell (i, j), i, j >= 1, of different elements records the
\* first of Remove, Add, Substitute whose candidate cost is the minimum of
\* the three: Remove wins a tie with either, Add wins a tie with Substitute.
C6_TieBreak ==
    \A i \in 1..N1 : \A j \in 1..N2 :
        (Written(i, j) /\ s1[i] # s2[j]) =>
            /\ Written(i - 1, j) /\ Written(i, j - 1) /\ Written(i - 1, j - 1)
            /\ CostAt(i, j) = MinCost(i, j)
            /\ ActionAt(i, j) =
                   IF RemoveCost(i, j) = MinCost(i, j)
                   THEN Remove(i, to_string(s1[i]))
                   ELSE IF AddCost(i, j) = MinCost(i, j)
                   THEN Add(j, to_string(s2[j]))
                   ELSE Substitute(j, to_string(s1[i]), to_string(s2[j]))

\* A table holding a Remove that tied with Substitute, a Remove that tied
\* with Add, an Add that tied with Substitute, and a Substitute.
C6_Witness ==
    /\ Filled
    /\ \E i \in 1..N1 : \E j \in 1..N2 :
           /\ s1[i] # s2[j]
           /\ ActionAt(i, j).tag = "Remove"
           /\ RemoveCost(i, j) = SubstituteCost(i, j)
    /\ \E i \in 1..N1 : \E j \in 1..N2 :
           /\ s1[i] # s2[j]
           /\ ActionAt(i, j).tag = "Remove"
           /\ RemoveCost(i, j) = AddCost(i, j)
    /\ \E i \in 1..N1 : \E j \in 1..N2 :
           /\ s1[i] # s2[j]
           /\ ActionAt(i, j).tag = "Add"
           /\ AddCost(i, j) = SubstituteCost(i, j)
    /\ \E i \in 1..N1 : \E j \in 1..N2 :
           /\ s1[i] # s2[j]
           /\ ActionAt(i, j).tag = "Substitute"

\* The traversal of the fill pass: the origin, row 0 for j = 1..n2, column 0
\* for i = 1..n1, then the cells with i, j >= 1 row by row.
FillOrder ==
    <<<<0, 0>>>>
        \o [j \in 1..N2 |-> <<0, j>>]
        \o [i \in 1..N1 |-> <<i, 0>>]
        \o [k \in 1..(N1 * N2) |-> <<((k - 1) \div N2) + 1, ((k - 1) % N2) + 1>>]

\* C7: the fill pass assigns the cells in the fixed traversal order, each
\* exactly once; a cell is non-empty exactly when it has been assigned; the
\* cells the recurrence is about to read are non-empty, and so is the cell
\* backtrack_actions is about to read; when the fill pass has ended every
\* cell has been assigned once and none is empty.  No unwrap panics.
C7_FillOnce ==
    /\ pc # "panic"
    /\ Len(writes) <= Len(FillOrder)
    /\ writes = Prefix(FillOrder, Len(writes))
    /\ \A k \in 1..Len(writes) : \A m \in 1..Len(writes) :
           writes[k] = writes[m] => k = m
    /\ \A i \in 0..N1 : \A j \in 0..N2 : Written(i, j) <=> <<i, j>> \in Range(writes)
    /\ (pc = "cells" /\ n1 <= N1 /\ n2 <= N2) =>
           /\ Written(n1 - 1, n2) /\ Written(n1, n2 - 1) /\ Written(n1 - 1, n2 - 1)
           /\ ~Written(n1, n2)
    /\ (pc = "backtrack" /\ n1 > 0 /\ n2 > 0) => Written(n1 - 1, n2 - 1)
    /\ Filled =>
           /\ writes = FillOrder
           /\ Len(writes) = (N1 + 1) * (N2 + 1)
           /\ \A i \in 0..N1 : \A j \in 0..N2 : Written(i, j)

\* The recurrence is about to read the neighbours of the last cell of a
\* largest table.
C7_Witness ==
    /\ pc = "cells"
    /\ N1 = MaxLen /\ N2 = MaxLen
    /\ n1 = N1 /\ n2 = N2
    /\ s1[n1] # s2[n2]

\* One iteration of the backtracking loop: the cursor moves up, left or
\* both, by one, and stays on the table.
CursorDecreases ==
    (pc = "backtrack" /\ pc' = "backtrack") =>
        /\ n1' \in {n1 - 1, n1}
        /\ n2' \in {n2 - 1, n2}
        /\ n1' + n2' < n1 + n2
        /\ n1' >= 0 /\ n2' >= 0
        /\ (n1' > 0 /\ n2' > 0) \/ (n1' = 0 /\ n2' = 0)
        /\ Len(result') = Len(result) + 1

\* What holds of the walk in every state.
WalkInvariant ==
    /\ pc # "panic"
    /\ \A j \in 1..N2 : Written(0, j) => ActionAt(0, j).tag = "Add"
    /\ \A i \in 1..N1 : Written(i, 0) => ActionAt(i, 0).tag = "Remove"
    /\ pc = "backtrack" =>
           /\ n1 \in 0..(N1 + 1) /\ n2 \in 0..(N2 + 1)
           /\ Len(result) + (n1 - 1) + (n2 - 1) <= N1 + N2
    /\ pc \in {"collect", "done"} =>
           /\ n1 = 0 /\ n2 = 0
           /\ result # <<>> /\ result[Len(result)] = <<0, 0>>
    /\ pc = "done" => Len(script) <= N1 + N2

\* C8: the backtracking loop terminates.  Every iteration decreases the
\* row cursor, the column cursor or both and increases neither; the cursor
\* never leaves the table (row 0 right of the origin holds only Adds,
\* column 0 below it only Removes); the walk ends in cell (0, 0); the
\* script has at most n1 + n2 operations; and a walk that has started
\* comes to its end.
C8_WalkTerminates ==
    /\ [][CursorDecreases]_vars
    /\ []WalkInvariant
    /\ (pc = "backtrack") ~> (pc = "done")

\* A walk that has taken a Remove and a diagonal step and has arrived in
\* row 0 right of the origin, where only Adds are left.
C8_Witness ==
    /\ pc = "backtrack"
    /\ n1 = 1 /\ n2 > 1
    /\ {"Remove", "Ignore"} \subseteq
           {ActionAt(result[k][1], result[k][2]).tag : k \in 1..Len(result)}

\* C9: the buffer backtrack_actions returns is never empty, ends with the
\* reference to cell (0, 0), which holds the sentinel Ignore(0, ""), and
\* refers to that cell nowhere else; the returned script is the buffer
\* reversed without that one entry: one operation less, every other
\* operation kept, the sentinel not among them.
C9_SentinelDropped ==
    /\ pc \in {"collect", "done"} =>
           /\ result # <<>>
           /\ result[Len(result)] = <<0, 0>>
           /\ ActionAt(0, 0) = Sentinel
           /\ \A k \in 1..(Len(result) - 1) : result[k] # <<0, 0>>
    /\ pc = "done" =>
           /\ Len(script) = Len(result) - 1
           /\ \A k \in 1..Len(script) :
                  /\ script[k] = ActionAt(result[Len(result) - k][1],
                                          result[Len(result) - k][2])
                  /\ script[k] # Sentinel
                  /\ script[k].pos >= 1

\* A returned script that keeps an empty line: an Ignore with the
\* sentinel's text that is not the sentinel.
C9_Witness ==
    /\ pc = "done"
    /\ \E k \in 1..Len(script) : script[k].tag = "Ignore" /\ script[k].text = ""
    /\ \E k \in 1..Len(script) : script[k].tag # "Ignore"

\* The operation cell (i, j) is to hold: built from the cell's own
\* coordinates and elements.
WellFormedAt(op, i, j) ==
    CASE op.tag = "Add" -> j >= 1 /\ op = Add(j, to_string(s2[j]))
      [] op.tag = "Remove" -> i >= 1 /\ op = Remove(i, to_string(s1[i]))
      [] op.tag = "Substitute" ->
             /\ i >= 1 /\ j >= 1
             /\ s1[i] # s2[j]
             /\ op = Substitute(j, to_string(s1[i]), to_string(s2[j]))
      [] op.tag = "Ignore" ->
             /\ i >= 1 /\ j >= 1
             /\ s1[i] = s2[j]
             /\ op = Ignore(j, to_string(s1[i]))

\* C10: every operation of the returned script carries the coordinates
\* and elements of the cell it was read from, not renumbered; so pos is
\* strictly increasing along the Adds, Substitutes and Ignores of the
\* script, and along its Removes.
C10_TableCoordinates ==
    pc = "done" =>
        /\ Len(script) < Len(result)
        /\ \A k \in 1..Len(script) :
               LET ref == result[Len(result) - k]
               IN WellFormedAt(script[k], ref[1], ref[2])
        /\ \A k \in 1..Len(script) : \A m \in (k + 1)..Len(script) :
               (script[k].tag = "Remove") = (script[m].tag = "Remove")
                   => script[k].pos < script[m].pos

\* A returned script in which a Remove is followed by a kept line with a
\* smaller pos: the numbers are table coordinates, not script positions.
C10_Witness ==
    /\ pc = "done"
    /\ \E k \in 1..Len(script) : \E m \in (k + 1)..Len(script) :
           /\ script[k].tag = "Remove"
           /\ script[m].tag = "Ignore"
           /\ script[m].pos < script[k].pos

----------------------------------------------------------------------------
\* lev runs on one thread with nothing to wait for: a step that can be
\* taken is taken.
FairSpec == Spec /\ WF_vars(Next)

====
